---------------------------- MODULE Spec2Model ----------------------------
(***************************************************************************)
(* A model of src/API.js (class API, the resource client) and of           *)
(* src/unnamed/part_000 (class ApiException, imported as APIException).    *)
(*                                                                         *)
(* One API object is modelled.  Its fields are the variables route ..      *)
(* callback.  The environment is the JavaScript event loop: the pending    *)
(* setTimeout tasks (timers), the HTTP requests handed to window.axios     *)
(* (reqs), the global event bus window.emitter (bus) and the console.      *)
(* Every public method is one action (the whole synchronous body of the    *)
(* method); every timer task and every promise continuation is one action. *)
(* Caller-supplied callbacks are opaque: an invocation is recorded in      *)
(* cbLog and returns normally.  Response bodies have the Laravel resource  *)
(* shape {data: [...], meta: {...}} with data an array of records.         *)
(***************************************************************************)
EXTENDS Integers, Sequences, FiniteSets, TLC

(***************************************************************************)
(* Bounds of the model and constants of the program.                       *)
(***************************************************************************)
\* the number of method calls made on the object (the constructor's own
\* get() counts as one)
MaxCalls == 2

\* this._debounce = 1000 (milliseconds)
Debounce == 1000

\* the granularity of the model's clock: two ticks per debounce window
TickMs == Debounce \div 2

\* JavaScript values that need a name
Null == "null"
EmptyObj == [k \in {} |-> ""]

VARIABLES
    route,       \* this._route
    params,      \* this._params (the object it refers to)
    meta,        \* this._meta
    raw,         \* this._raw: <<>> for null, <<body>> once set
    data,        \* this._data
    loading,     \* this._loading
    saving,      \* this._saving
    debouncing,  \* this._debouncing: 0 for null, otherwise a timer handle
    callback,    \* this._callback: Null or the registered function
    timers,      \* setTimeout tasks scheduled and neither fired nor cleared
    reqs,        \* HTTP requests handed to axios, by the id of their call
    bus,         \* events published on window.emitter
    console,     \* values passed to console.log
    since,       \* ms since the last get()/show() call, saturating at Debounce
    calls,       \* history: one record per method call, in call order
    cbLog,       \* history: callback invocations, in order
    excs,        \* history: ApiException constructions, in order
    last,        \* history: the step taken last
    ctor,        \* history: the arguments the constructor was called with
    limit        \* the number of method calls the behaviour may make

obj == <<route, params, meta, raw, data, loading, saving, debouncing, callback>>
env == <<timers, reqs, bus, console, since>>
hist == <<calls, cbLog, excs, last>>
vars == <<obj, env, hist, ctor, limit>>

\* the constructor's arguments and the number of calls allowed are fixed
Fixed == UNCHANGED <<ctor, limit>>

(***************************************************************************)
(* Inputs: the arguments the callers pass and the responses of the server. *)
(***************************************************************************)
Rec(i, n) == [id |-> i, name |-> n]

\* response bodies r.data of index/show requests
Body1 == [data |-> <<Rec("1", "x"), Rec("2", "y"), Rec("1", "z"), Rec("3", "v")>>,
          meta |-> [total |-> "4"]]
Body2 == [data |-> <<Rec("2", "y")>>, meta |-> [total |-> "1"]]
Bodies == {Body1, Body2}

\* the constructor's init argument, when given
Seed == [data |-> <<Rec("2", "y"), Rec("1", "x"), Rec("2", "w")>>,
         meta |-> [total |-> "3"]]

\* the error objects axios rejects with: with a response body carrying a
\* message, or without any response (a network error)
ErrMessage == [response |-> <<[data |-> [message |-> "Not found"]]>>]
ErrNetwork == [response |-> <<>>]
Errors == {ErrMessage, ErrNetwork}

\* (params, callback) arguments of get/show/post/update and (id, callback,
\* params) arguments of delete; "cb" is a function passed by the caller
GetArgs == {<<[query |-> "a"], "cb">>, <<[query |-> "b", page |-> "2"], Null>>}
ShowArgs == {<<[id |-> "1"], "cb">>}
PostArgs == {<<[page |-> "1"], "cb">>, <<[page |-> "1"], Null>>}
UpdateArgs == {<<[id |-> "2"], "cb">>}
DeleteArgs == {<<"1", "cb", EmptyObj>>, <<"2", Null, [query |-> "c"]>>}
ParamsArgs == {[page |-> "3"]}
DataArgs == {<<Rec("9", "s")>>}
MetaArgs == {[total |-> "0"]}
IdLists == {<<"1", "2">>}
Callbacks == {"f", "g"}

\* constructor arguments (route, init, params, meta, autoload)
CtorArgs ==
    { [route |-> "users", init |-> <<>>, autoload |-> TRUE],
      [route |-> "users", init |-> <<>>, autoload |-> FALSE],
      [route |-> "", init |-> <<Seed>>, autoload |-> TRUE] }

(***************************************************************************)
(* Pure helpers: the library functions the methods use.                    *)
(***************************************************************************)
\* Object.assign(target, src): every own key of src is written to target
ObjectAssign(target, src) ==
    [k \in DOMAIN target \cup DOMAIN src |->
        IF k \in DOMAIN src THEN src[k] ELSE target[k]]

\* a variant: _params as a copy taken before the merge, stored back after it
RestoreCopy(before, after) == before

\* let _params = this._params ... this.params(_params): _params is a second
\* reference to the one object, so what it holds after Object.assign has
\* run on this._params is the merged object (before: the object when the
\* reference was taken, after: the object when it is stored back)
ThroughAlias(before, after) == after

\* a variant: the pending task is left alone
ClearNothing(ts, handle) == ts

\* clearTimeout(handle): null and handles of fired tasks are ignored
ClearTimeout(ts, handle) == {t \in ts : t.h # handle}

\* a variant: the delay depends on a task still being pending
DelayIfPending(handle, ts) ==
    IF \E t \in ts : t.h = handle THEN Debounce ELSE 0

\* this._debouncing ? this._debounce : 0, with the handle as it is before
\* the new task is scheduled; every handle setTimeout returns is truthy
DelayFor(handle, ts) == IF handle # 0 THEN Debounce ELSE 0

\* the flags as the methods and their handlers assign them:
\* this._loading = true in get and show
LoadingOnCall == TRUE

\* a variant: the handler leaves the flag set
LoadingStaysOn == TRUE

\* this._loading = false in the .then of get and of show
LoadingOnThen == FALSE

\* this._saving = true in post and update
SavingOnCall == TRUE

\* a variant: the handler leaves the flag set
SavingStaysOn == TRUE

\* this._saving = false in the .then of post and of update
SavingOnThen == FALSE

\* a variant: the .catch of post clears the flag
ClearedOnCatch(s) == FALSE

\* the .catch of post assigns nothing: this._saving keeps its value s
SavingOnCatch(s) == s

\* a variant: the records received are added to those held
AppendData(cur, body) == cur \o body.data

\* this._data = r.data.data in the .then of get and of show: the field held
\* cur and holds the data of the body, whichever request it answers
ThenData(cur, body) == body.data

\* a variant: the keys held win over those received
MergeMeta(cur, body) ==
    [k \in DOMAIN cur \cup DOMAIN body.meta |->
        IF k \in DOMAIN cur THEN cur[k] ELSE body.meta[k]]

\* this._meta = r.data.meta in the .then of get and of show
ThenMeta(cur, body) == body.meta

\* a variant: an empty route does not stop the autoload
AutoloadAnyRoute(c) == c.autoload

\* if (autoload && route): the empty string is falsy
Autoload(c) == c.autoload /\ c.route # ""

\* this._endpoints
Endpoints ==
    [index |-> ".index", destroy |-> ".destroy", show |-> ".show",
     store |-> ".store", update |-> ".update"]

\* this._route + this._endpoints.<ep>
RouteName(r, ep) == r \o Endpoints[ep]

\* a variant: the ids run together, no separator
RECURSIVE Concat(_)
Concat(ids) == IF ids = <<>> THEN "" ELSE Head(ids) \o Concat(Tail(ids))

\* ids.join(',')
RECURSIVE Join(_)
Join(ids) ==
    IF ids = <<>> THEN ""
    ELSE IF Len(ids) = 1 THEN ids[1]
    ELSE ids[1] \o "," \o Join(Tail(ids))

\* a variant: only the first matching record is removed
RECURSIVE FilterFirst(_, _)
FilterFirst(ds, id) ==
    IF ds = <<>> THEN <<>>
    ELSE IF ds[1].id # id THEN <<ds[1]>> \o FilterFirst(Tail(ds), id)
    ELSE Tail(ds)

\* this.data().filter(d => d.id !== id)
RECURSIVE Filter(_, _)
Filter(ds, id) ==
    IF ds = <<>> THEN <<>>
    ELSE IF ds[1].id # id THEN <<ds[1]>> \o Filter(Tail(ds), id)
    ELSE Filter(Tail(ds), id)

\* data(data = null) / meta(meta = null) called with an argument: a truthy
\* argument (every array, every object) replaces the field.  arg is <<>> for
\* null/undefined and <<v>> for a value
Setter(cur, arg) == IF arg # <<>> THEN arg[1] ELSE cur

\* a variant: the event is published before the message is read
ApiExceptionEmitFirst(error) ==
    [constructed |-> error.response # <<>>,
     message |-> IF error.response # <<>>
                 THEN error.response[1].data.message ELSE "",
     logged |-> <<error>>,
     emitted |-> <<[event |-> "error-message", payload |-> error]>>]

\* new ApiException(error): what the constructor does before it returns or
\* throws.  error.response.data.message throws a TypeError when the error
\* carries no response, after console.log and before emit
ApiException(error) ==
    IF error.response # <<>>
    THEN [constructed |-> TRUE,
          message |-> error.response[1].data.message,
          logged |-> <<error>>,
          emitted |-> <<[event |-> "error-message", payload |-> error]>>]
    ELSE [constructed |-> FALSE,
          message |-> "",
          logged |-> <<error>>,
          emitted |-> <<>>]

(***************************************************************************)
(* History records.                                                        *)
(***************************************************************************)
\* a method call: op, its params argument, its callback, and for get/show
\* the ms since the previous get/show call (gap), the delay handed to
\* setTimeout, whether the previous task was still pending (pend); after is
\* this._params when the call returns
Call(op, arg, cb, gap, delay, pend, after) ==
    [op |-> op, arg |-> arg, cb |-> cb, gap |-> gap, delay |-> delay,
     pend |-> pend, after |-> after]

\* the step taken last: the method called or the handler run, the call it
\* belongs to and, for the handler of delete, this._data before it ran
Step(ev, id, was) == [ev |-> ev, id |-> id, was |-> was]

Pending(handle, ts) == \E t \in ts : t.h = handle

InFlight(id) == id \in DOMAIN reqs /\ reqs[id].st = "flight"

\* the number of the next response to be handled: responses are numbered in
\* the order they arrive
ArrivalNo == Cardinality({i \in DOMAIN reqs : reqs[i].st # "flight"}) + 1

\* a request handed to axios: the named route and the parameters its URL is
\* resolved from, the callback and the id its handler closes over; history:
\* asOf is the number of calls made when it is dispatched, st its outcome,
\* doneAt the number of calls made when its response is handled, err the
\* error it was rejected with, got the body it was answered with, doneNo
\* the arrival number of its response
Request(ep, ps, cb, del, asOf) ==
    [ep |-> ep, name |-> RouteName(route, ep), params |-> ps, cb |-> cb,
     del |-> del, asOf |-> asOf, st |-> "flight", doneAt |-> 0, err |-> <<>>,
     got |-> <<>>, doneNo |-> 0]

Settle(id, st, err) ==
    [reqs EXCEPT ![id].st = st, ![id].doneAt = Len(calls), ![id].err = err,
                 ![id].doneNo = ArrivalNo]

Answer(id, body) ==
    [reqs EXCEPT ![id].st = "ok", ![id].doneAt = Len(calls),
                 ![id].got = <<body>>, ![id].doneNo = ArrivalNo]

\* a variant: the handler tests the functions and calls none
InvokeNone(id, fs, flag) == <<>>

\* the callback invocations of one handler, in order: fs is the sequence of
\* the functions the handler tests with if (f), flag is this._saving when
\* they run
Invoke(id, fs, flag) ==
    [i \in 1..Len(SelectSeq(fs, LAMBDA f : f[2] # Null)) |->
        [req |-> id,
         who |-> SelectSeq(fs, LAMBDA f : f[2] # Null)[i][1],
         f |-> SelectSeq(fs, LAMBDA f : f[2] # Null)[i][2],
         saving |-> flag]]

(***************************************************************************)
(* The constructor: Init is the state when it returns.                     *)
(***************************************************************************)
Construct(c) ==
        LET auto == Autoload(c)
        IN  /\ route = c.route
            /\ params = EmptyObj
            /\ meta = IF c.init # <<>> THEN Setter(EmptyObj, <<c.init[1].meta>>)
                      ELSE EmptyObj
            /\ raw = <<>>
            /\ data = IF c.init # <<>> THEN Setter(<<>>, <<c.init[1].data>>)
                      ELSE <<>>
            /\ loading = IF auto THEN LoadingOnCall ELSE FALSE
            /\ saving = FALSE
            /\ debouncing = IF auto THEN 1 ELSE 0
            /\ callback = Null
            /\ timers = IF auto
                        THEN {[h |-> 1, ep |-> "index", cb |-> Null,
                               left |-> DelayFor(0, {})]}
                        ELSE {}
            /\ reqs = EmptyObj
            /\ bus = <<>>
            /\ console = <<>>
            /\ since = IF auto THEN 0 ELSE Debounce
            /\ calls = IF auto
                       THEN <<Call("get", EmptyObj, Null, Debounce,
                                   DelayFor(0, {}), FALSE,
                                   ThroughAlias(EmptyObj,
                                                ObjectAssign(EmptyObj, EmptyObj)))>>
                       ELSE <<>>
            /\ cbLog = <<>>
            /\ excs = <<>>
            /\ last = Step("new", 0, <<>>)
            /\ ctor = c

Init == \E c \in CtorArgs : Construct(c) /\ limit = MaxCalls

(***************************************************************************)
(* get(params, callback) and show(params, callback).                       *)
(***************************************************************************)
\* the body the two methods share; ep is the endpoint the task will request
Debounced(op, ep, arg, cb) ==
    /\ Len(calls) < limit
    /\ LET id == Len(calls) + 1
           merged == ObjectAssign(params, arg)
           delay == DelayFor(debouncing, timers)
       IN  /\ timers' = ClearTimeout(timers, debouncing)
                          \cup {[h |-> id, ep |-> ep, cb |-> cb, left |-> delay]}
           /\ loading' = LoadingOnCall
           /\ debouncing' = id
           /\ params' = ThroughAlias(params, merged)
           /\ since' = 0
           /\ calls' = Append(calls, Call(op, arg, cb, since, delay,
                                          Pending(debouncing, timers),
                                          ThroughAlias(params, merged)))
           /\ Fixed
           /\ last' = Step(op, id, <<>>)
    /\ UNCHANGED <<route, meta, raw, data, saving, callback>>
    /\ UNCHANGED <<reqs, bus, console, cbLog, excs>>

Get(arg, cb) == Debounced("get", "index", arg, cb)

Show(arg, cb) == Debounced("show", "show", arg, cb)

\* the task setTimeout runs once its delay has elapsed: it reads
\* this._params then and hands the request to axios
Fire(t) ==
    /\ t \in timers
    /\ t.left = 0
    /\ timers' = timers \ {t}
    /\ reqs' = reqs @@ (t.h :> Request(t.ep, params, t.cb, "", Len(calls)))
    /\ Fixed
    /\ last' = Step("fire", t.h, <<>>)
    /\ UNCHANGED <<obj, bus, console, since, calls, cbLog, excs>>

\* .then(r => ...) of get and of show; body is r.data
FetchOk(id, body) ==
    /\ InFlight(id)
    /\ reqs[id].ep \in {"index", "show"}
    /\ data' = ThenData(data, body)
    /\ meta' = ThenMeta(meta, body)
    /\ raw' = IF reqs[id].ep = "show" THEN <<body>> ELSE raw
    /\ loading' = LoadingOnThen
    /\ cbLog' = cbLog \o Invoke(id, <<<<"call", reqs[id].cb>>>>, saving)
    /\ reqs' = Answer(id, body)
    /\ Fixed
    /\ last' = Step("fetchOk", id, <<>>)
    /\ UNCHANGED <<route, params, saving, debouncing, callback>>
    /\ UNCHANGED <<timers, bus, console, since, calls, excs>>

\* the promise of get or show rejects: no handler is attached
FetchFail(id) ==
    /\ InFlight(id)
    /\ reqs[id].ep \in {"index", "show"}
    /\ reqs' = Settle(id, "fail", <<>>)
    /\ Fixed
    /\ last' = Step("fetchFail", id, <<>>)
    /\ UNCHANGED <<obj, timers, bus, console, since, calls, cbLog, excs>>

\* time passes; a task whose delay has elapsed runs before more time passes
Tick ==
    /\ \A t \in timers : t.left > 0
    /\ timers' = {[t EXCEPT !.left = @ - TickMs] : t \in timers}
    /\ since' = IF since + TickMs > Debounce THEN Debounce ELSE since + TickMs
    /\ UNCHANGED <<obj, reqs, bus, console, hist>>
    /\ Fixed

(***************************************************************************)
(* post(params, data, callback) and update(params, data, callback).        *)
(***************************************************************************)
\* the synchronous body the two methods share: the URL is resolved from the
\* merged parameters and the request is handed to axios at once
Write(op, ep, arg, cb) ==
    /\ Len(calls) < limit
    /\ LET id == Len(calls) + 1
           merged == ObjectAssign(params, arg)
       IN  /\ saving' = SavingOnCall
           /\ reqs' = reqs @@ (id :> Request(ep, merged, cb, "", id))
           /\ params' = ThroughAlias(params, merged)
           /\ calls' = Append(calls, Call(op, arg, cb, 0, 0, FALSE,
                                          ThroughAlias(params, merged)))
           /\ Fixed
           /\ last' = Step(op, id, <<>>)
    /\ UNCHANGED <<route, meta, raw, data, loading, debouncing, callback>>
    /\ UNCHANGED <<timers, bus, console, since, cbLog, excs>>

Post(arg, cb) == Write("post", "store", arg, cb)

Update(arg, cb) == Write("update", "update", arg, cb)

\* a variant: the callback of the call first
OwnCallbackFirst(registered, own) == <<<<"call", own>>, <<"registered", registered>>>>

\* the callbacks a .then(r => ...) of post or update runs, in its order:
\* this._callback, then the callback of the call
ThenCallbacks(registered, own) == <<<<"registered", registered>>, <<"call", own>>>>

\* .then(r => ...) of post and of update
WriteOk(id) ==
    /\ InFlight(id)
    /\ reqs[id].ep \in {"store", "update"}
    /\ saving' = SavingOnThen
    /\ cbLog' = cbLog \o Invoke(id, ThenCallbacks(callback, reqs[id].cb),
                                 SavingOnThen)
    /\ reqs' = Settle(id, "ok", <<>>)
    /\ Fixed
    /\ last' = Step(IF reqs[id].ep = "store" THEN "postOk" ELSE "updateOk",
                    id, <<>>)
    /\ UNCHANGED <<route, params, meta, raw, data, loading, debouncing, callback>>
    /\ UNCHANGED <<timers, bus, console, since, calls, excs>>

\* .catch(e => { throw new APIException(e) }) of post
PostFail(id, e) ==
    /\ InFlight(id)
    /\ reqs[id].ep = "store"
    /\ LET x == ApiException(e)
       IN  /\ console' = console \o x.logged
           /\ bus' = bus \o [i \in 1..Len(x.emitted) |->
                                [event |-> x.emitted[i].event,
                                 payload |-> x.emitted[i].payload,
                                 req |-> id]]
           /\ excs' = excs \o [i \in 1..1 |->
                                [req |-> id, constructed |-> x.constructed,
                                 name |-> "APIException",
                                 message |-> x.message]]
    /\ saving' = SavingOnCatch(saving)
    /\ reqs' = Settle(id, "fail", <<e>>)
    /\ Fixed
    /\ last' = Step("postFail", id, <<>>)
    /\ UNCHANGED <<route, params, meta, raw, data, loading, debouncing, callback>>
    /\ UNCHANGED <<timers, since, calls, cbLog>>

\* the promise of update rejects: no handler is attached
UpdateFail(id) ==
    /\ InFlight(id)
    /\ reqs[id].ep = "update"
    /\ reqs' = Settle(id, "fail", <<>>)
    /\ Fixed
    /\ last' = Step("updateFail", id, <<>>)
    /\ UNCHANGED <<obj, timers, bus, console, since, calls, cbLog, excs>>

(***************************************************************************)
(* delete(id, callback, params).                                           *)
(***************************************************************************)
Delete(del, cb, arg) ==
    /\ Len(calls) < limit
    /\ LET id == Len(calls) + 1
           merged == ObjectAssign(ObjectAssign(params, arg), [id |-> del])
       IN  /\ reqs' = reqs @@ (id :> Request("destroy", merged, cb, del, id))
           /\ params' = ThroughAlias(params, merged)
           /\ calls' = Append(calls, Call("delete", arg, cb, 0, 0, FALSE,
                                          ThroughAlias(params, merged)))
           /\ Fixed
           /\ last' = Step("delete", id, <<>>)
    /\ UNCHANGED <<route, meta, raw, data, loading, saving, debouncing, callback>>
    /\ UNCHANGED <<timers, bus, console, since, cbLog, excs>>

\* .then(r => ...) of delete
DeleteOk(id) ==
    /\ InFlight(id)
    /\ reqs[id].ep = "destroy"
    /\ data' = Setter(data, <<Filter(data, reqs[id].del)>>)
    /\ cbLog' = cbLog \o Invoke(id, <<<<"call", reqs[id].cb>>>>, saving)
    /\ reqs' = Settle(id, "ok", <<>>)
    /\ Fixed
    /\ last' = Step("deleteOk", id, data)
    /\ UNCHANGED <<route, params, meta, raw, loading, saving, debouncing, callback>>
    /\ UNCHANGED <<timers, bus, console, since, calls, excs>>

\* the promise of delete rejects: no handler is attached
DeleteFail(id) ==
    /\ InFlight(id)
    /\ reqs[id].ep = "destroy"
    /\ reqs' = Settle(id, "fail", <<>>)
    /\ Fixed
    /\ last' = Step("deleteFail", id, <<>>)
    /\ UNCHANGED <<obj, timers, bus, console, since, calls, cbLog, excs>>

(***************************************************************************)
(* params(params), exclude(ids), only(ids), onSuccess(callback).           *)
(***************************************************************************)
\* a variant: the map given is merged into the one held
MergeGiven(cur, p) == ObjectAssign(cur, p)

\* this._params = params: the map held is dropped for the one given
Replace(cur, p) == p

\* this._params = params: the field now refers to the caller's object
SetParams(op, p) ==
    /\ Len(calls) < limit
    /\ params' = Replace(params, p)
    /\ calls' = Append(calls, Call(op, p, Null, 0, 0, FALSE, p))
    /\ Fixed
    /\ last' = Step(op, Len(calls) + 1, <<>>)
    /\ UNCHANGED <<route, meta, raw, data, loading, saving, debouncing, callback>>
    /\ UNCHANGED <<env, cbLog, excs>>

Params(p) == SetParams("params", p)

Exclude(ids) == SetParams("exclude", [exclude |-> Join(ids)])

Only(ids) == SetParams("only", [only |-> Join(ids)])

\* data(data) with an array: this._data = data
Data(v) ==
    /\ Len(calls) < limit
    /\ data' = Setter(data, <<v>>)
    /\ calls' = Append(calls, Call("data", v, Null, 0, 0, FALSE, params))
    /\ Fixed
    /\ last' = Step("data", Len(calls) + 1, <<>>)
    /\ UNCHANGED <<route, params, meta, raw, loading, saving, debouncing, callback>>
    /\ UNCHANGED <<env, cbLog, excs>>

\* meta(meta) with an object: this._meta = meta
Meta(m) ==
    /\ Len(calls) < limit
    /\ meta' = Setter(meta, <<m>>)
    /\ calls' = Append(calls, Call("meta", m, Null, 0, 0, FALSE, params))
    /\ Fixed
    /\ last' = Step("meta", Len(calls) + 1, <<>>)
    /\ UNCHANGED <<route, params, data, raw, loading, saving, debouncing, callback>>
    /\ UNCHANGED <<env, cbLog, excs>>

\* a variant: a callback once registered stays
RegisterOnce(cur, f) == IF cur = Null THEN f ELSE cur

\* this._callback = callback: the one field, overwritten
Register(cur, f) == f

OnSuccess(f) ==
    /\ Len(calls) < limit
    /\ callback' = Register(callback, f)
    /\ calls' = Append(calls, Call("onSuccess", EmptyObj, f, 0, 0, FALSE, params))
    /\ Fixed
    /\ last' = Step("onSuccess", Len(calls) + 1, <<>>)
    /\ UNCHANGED <<route, params, meta, raw, data, loading, saving, debouncing>>
    /\ UNCHANGED <<env, cbLog, excs>>

(***************************************************************************)
(* The specification.                                                      *)
(***************************************************************************)
Ids == 1..limit

Next ==
    \/ \E a \in GetArgs : Get(a[1], a[2])
    \/ \E a \in ShowArgs : Show(a[1], a[2])
    \/ \E t \in timers : Fire(t)
    \/ \E id \in Ids, body \in Bodies : FetchOk(id, body)
    \/ \E id \in Ids : FetchFail(id)
    \/ \E a \in PostArgs : Post(a[1], a[2])
    \/ \E a \in UpdateArgs : Update(a[1], a[2])
    \/ \E id \in Ids : WriteOk(id)
    \/ \E id \in Ids, e \in Errors : PostFail(id, e)
    \/ \E id \in Ids : UpdateFail(id)
    \/ \E a \in DeleteArgs : Delete(a[1], a[2], a[3])
    \/ \E id \in Ids : DeleteOk(id)
    \/ \E id \in Ids : DeleteFail(id)
    \/ \E p \in ParamsArgs : Params(p)
    \/ \E ids \in IdLists : Exclude(ids)
    \/ \E ids \in IdLists : Only(ids)
    \/ \E f \in Callbacks : OnSuccess(f)
    \/ \E v \in DataArgs : Data(v)
    \/ \E m \in MetaArgs : Meta(m)
    \/ Tick

Spec == Init /\ [][Next]_vars

\* ---- registrations and writes: onSuccess, post, update and their responses ----

\* the number of onSuccess/post/update calls
MaxSaves == 3

SaveInit ==
    \E c \in {a \in CtorArgs : ~Autoload(a)} : Construct(c) /\ limit = MaxSaves

SaveNext ==
    \/ \E f \in Callbacks : OnSuccess(f)
    \/ \E a \in PostArgs : Post(a[1], a[2])
    \/ \E a \in UpdateArgs : Update(a[1], a[2])
    \/ \E id \in Ids : WriteOk(id)
    \/ \E id \in Ids, e \in Errors : PostFail(id, e)
    \/ \E id \in Ids : UpdateFail(id)

SaveSpec == SaveInit /\ [][SaveNext]_vars

\* ---- bursts of fetches, with the timer and the event loop running ----

\* the number of calls in a burst
MaxBurst == 2

BurstInit == \E c \in CtorArgs : Construct(c) /\ limit = MaxBurst

BurstNext ==
    \/ \E a \in GetArgs : Get(a[1], a[2])
    \/ \E a \in ShowArgs : Show(a[1], a[2])
    \/ \E p \in ParamsArgs : Params(p)
    \/ \E t \in timers : Fire(t)
    \/ \E id \in Ids, body \in Bodies : FetchOk(id, body)
    \/ \E id \in Ids : FetchFail(id)
    \/ Tick

\* time passes, and a task whose delay has elapsed is run by the event loop
BurstSpec ==
    /\ BurstInit
    /\ [][BurstNext]_vars
    /\ WF_vars(Tick)
    /\ WF_vars(\E t \in timers : Fire(t))

(***************************************************************************)
(* Properties.  Requests and timer tasks are named by the index of the     *)
(* call that created them, so calls[i] and reqs[i] belong together.        *)
(***************************************************************************)
IsFetch(i) == calls[i].op \in {"get", "show"}

IsMerge(i) == calls[i].op \in {"get", "show", "post", "update", "delete"}

IsReplace(i) == calls[i].op \in {"params", "exclude", "only"}

Dispatched(i) == i \in DOMAIN reqs

\* i and j are two get() calls with no get()/show() call between them
GetPair(i, j) ==
    /\ i \in DOMAIN calls /\ j \in DOMAIN calls /\ i < j
    /\ calls[i].op = "get" /\ calls[j].op = "get"
    /\ \A k \in (i + 1)..(j - 1) : ~IsFetch(k)

C2_AsStated ==
    \A k \in DOMAIN calls :
        IsFetch(k) => calls[k].delay = IF calls[k].pend THEN Debounce ELSE 0

\* C2 amended: a get()/show() call is scheduled with delay 0 when it is the
\* first get()/show() call on the client (the constructor's autoload call
\* included), and with the debounce duration otherwise, whether or not the
\* task scheduled before it is still pending or has already fired.
C2_DelayZeroOnlyForFirstFetch ==
    \A k \in DOMAIN calls :
        IsFetch(k) =>
            calls[k].delay = IF \E i \in 1..(k - 1) : IsFetch(i)
                             THEN Debounce ELSE 0

\* a call made after the earlier task has fired, and long after it, is
\* scheduled with the debounce duration
C2_Witness ==
    \E k \in DOMAIN calls :
        /\ IsFetch(k) /\ ~calls[k].pend /\ calls[k].gap = Debounce
        /\ calls[k].delay = Debounce
        /\ \E i \in 1..(k - 1) : IsFetch(i) /\ Dispatched(i)

\* the maps the calls after call r merged, in order: the params argument of
\* each call and, for delete, {id: id} after it
RECURSIVE MergedSince(_)
MergedSince(r) ==
    IF r >= Len(calls) THEN <<>>
    ELSE (IF IsMerge(r + 1) THEN <<calls[r + 1].arg>> ELSE <<>>)
         \o (IF calls[r + 1].op = "delete"
             THEN <<[id |-> reqs[r + 1].del]>> ELSE <<>>)
         \o MergedSince(r + 1)

\* the shallow union of a sequence of maps: each key of any of them, with the
\* value of the last map that has it
ShallowUnion(ms) ==
    LET has(k) == {i \in DOMAIN ms : k \in DOMAIN ms[i]}
        lastOf(k) == CHOOSE i \in has(k) : \A j \in has(k) : j <= i
    IN  [k \in UNION {DOMAIN ms[i] : i \in DOMAIN ms} |-> ms[lastOf(k)][k]]

\* the last params/exclude/only call, 0 when there is none
LastReplace ==
    IF \E r \in DOMAIN calls : IsReplace(r)
    THEN CHOOSE r \in DOMAIN calls :
            IsReplace(r) /\ \A q \in DOMAIN calls : IsReplace(q) => q <= r
    ELSE 0

\* C3: the stored parameters are the shallow union of the initial parameters
\* (or, after a params/exclude/only call, of the map it stored) and the maps
\* of all get/show/post/update/delete calls since, in call order; the merge
\* of each call is still there when the call has returned.
C3_ParamsAreShallowUnion ==
    /\ params = ShallowUnion(
           <<IF LastReplace = 0 THEN EmptyObj ELSE calls[LastReplace].arg>>
           \o MergedSince(LastReplace))
    /\ Len(calls) > 0 => params = calls[Len(calls)].after

\* merging calls, a delete among them, one overwriting a key of another
C3_Witness ==
    /\ Len(calls) = MaxCalls
    /\ \A i \in DOMAIN calls : IsMerge(i)
    /\ \E i \in DOMAIN calls : calls[i].op = "delete"
    /\ \E i, j \in DOMAIN calls :
          /\ i < j
          /\ \E k \in DOMAIN calls[i].arg \cap DOMAIN calls[j].arg :
                calls[i].arg[k] # calls[j].arg[k] /\ params[k] = calls[j].arg[k]

\* C4: right after the handler of a successful delete(X) has run, data holds
\* no record with id X and is the data from before the handler without the
\* records with id X, the others in their order.
C4_DeleteFiltersData ==
    last.ev = "deleteOk" =>
        /\ \A i \in DOMAIN data : data[i].id # reqs[last.id].del
        /\ data = SelectSeq(last.was, LAMBDA d : d.id # reqs[last.id].del)

\* a delete removed two records and kept two others
C4_Witness ==
    /\ last.ev = "deleteOk"
    /\ Len(last.was) = Len(data) + 2
    /\ Len(data) = 2

Fetches == {k \in DOMAIN calls : IsFetch(k)}

Succeeded(i) == Dispatched(i) /\ reqs[i].st = "ok"

Failed(i) == Dispatched(i) /\ reqs[i].st = "fail"

\* C5: with a single get()/show() call whose request does not fail, loading
\* is false before the call, true from the call until the response handler
\* has run (through the delay and while the request is in flight) and false
\* afterwards.
C5_LoadingWindowSingleCall ==
    /\ Fetches = {} => ~loading
    /\ \A k \in DOMAIN calls :
          Fetches = {k} /\ ~Failed(k) => (loading <=> ~Succeeded(k))
    /\ last.ev \in {"get", "show"} => loading

\* the single fetch of a client has been answered, among other calls
C5_Witness ==
    /\ \E k \in DOMAIN calls : Fetches = {k} /\ Succeeded(k) /\ calls[k].op = "show"
    /\ Len(calls) = MaxCalls
    /\ ~loading

\* C6: saving is true right after post() or update() has been called and
\* false right after the handler of a successful response of either has run.
C6_SavingAroundWrite ==
    /\ last.ev \in {"post", "update"} => saving
    /\ last.ev \in {"postOk", "updateOk"} => ~saving

\* a successful response was handled while another write is still in flight
C6_Witness ==
    /\ last.ev \in {"postOk", "updateOk"}
    /\ \E i \in DOMAIN reqs : reqs[i].ep \in {"store", "update"} /\ InFlight(i)

Writes == {k \in DOMAIN calls : calls[k].op \in {"post", "update"}}

LastWrite == CHOOSE w \in Writes : \A v \in Writes : v <= w

\* the handler of a successful post/update response has run since call w
ClearedSince(w) ==
    \E r \in DOMAIN reqs :
        reqs[r].ep \in {"store", "update"} /\ Succeeded(r) /\ reqs[r].doneAt >= w

FailedCreate(i) == Failed(i) /\ reqs[i].ep = "store"

\* C7 as stated: once a create has failed, saving is true, then and ever
\* after.
C7_AsStated == (\E i \in DOMAIN reqs : FailedCreate(i)) => saving

\* C7 amended: the failure path of create does not touch saving.  After a
\* failed create the flag is true exactly when no successful create/update
\* response has been handled since the last create/update call: it stays
\* true for good when no such response follows, and the success of another
\* create or update (one in flight, or one called later) clears it.
C7_FailureLeavesSaving ==
    (\E i \in DOMAIN reqs : FailedCreate(i)) =>
        (saving <=> ~ClearedSince(LastWrite))

\* the failure of the only write has just been handled, and saving is on
C7_Witness ==
    /\ last.ev = "postFail"
    /\ Cardinality(Writes) = 1
    /\ saving

\* the callback registered when n calls had been made
RegisteredAt(n) ==
    LET regs == {k \in 1..n : calls[k].op = "onSuccess"}
    IN  IF regs = {} THEN Null
        ELSE calls[CHOOSE k \in regs : \A q \in regs : q <= k].cb

InvokedFor(i) == SelectSeq(cbLog, LAMBDA c : c.req = i)

\* C8: the handler of a successful create clears saving, then calls the
\* registered callback if there is one, then the callback of the call if one
\* was passed, each once; a create in flight or failed has called neither.
C8_CreateCallbacksInOrder ==
    \A i \in DOMAIN reqs :
        reqs[i].ep = "store" =>
            InvokedFor(i) =
                IF Succeeded(i)
                THEN (IF RegisteredAt(reqs[i].doneAt) # Null
                      THEN <<[req |-> i, who |-> "registered",
                              f |-> RegisteredAt(reqs[i].doneAt),
                              saving |-> FALSE]>>
                      ELSE <<>>)
                     \o (IF calls[i].cb # Null
                         THEN <<[req |-> i, who |-> "call", f |-> calls[i].cb,
                                 saving |-> FALSE]>>
                         ELSE <<>>)
                ELSE <<>>

\* a successful create has called both callbacks
C8_Witness ==
    \E i \in DOMAIN reqs :
        reqs[i].ep = "store" /\ Succeeded(i) /\ Len(InvokedFor(i)) = 2

PublishedFor(i) == SelectSeq(bus, LAMBDA b : b.req = i)

ConstructedFor(i) == SelectSeq(excs, LAMBDA x : x.req = i /\ x.constructed)

\* C9 as stated: each failed create constructs one Request Error and
\* publishes one event carrying the error; no other request does either.
C9_AsStated ==
    \A i \in DOMAIN reqs :
        IF FailedCreate(i)
        THEN /\ Len(ConstructedFor(i)) = 1
             /\ Len(PublishedFor(i)) = 1
             /\ PublishedFor(i)[1].payload = reqs[i].err[1]
        ELSE Len(ConstructedFor(i)) = 0 /\ Len(PublishedFor(i)) = 0

\* C9 amended: a failed create whose error carries a response body
\* constructs exactly one Request Error (with the body's message) and
\* publishes exactly one event carrying the error; for an error without a
\* response the construction throws before the event is published, so no
\* Request Error and no event result; the error is logged once either way.
\* No other request, failed or not, constructs or publishes anything.
C9_FailedCreateSurfacedOnce ==
    /\ \A i \in DOMAIN reqs :
          IF FailedCreate(i)
          THEN IF reqs[i].err[1].response # <<>>
               THEN /\ Len(ConstructedFor(i)) = 1
                    /\ ConstructedFor(i)[1].message =
                          reqs[i].err[1].response[1].data.message
                    /\ Len(PublishedFor(i)) = 1
                    /\ PublishedFor(i)[1].event = "error-message"
                    /\ PublishedFor(i)[1].payload = reqs[i].err[1]
               ELSE Len(ConstructedFor(i)) = 0 /\ Len(PublishedFor(i)) = 0
          ELSE /\ Len(SelectSeq(excs, LAMBDA x : x.req = i)) = 0
               /\ Len(PublishedFor(i)) = 0
    /\ Len(console) = Cardinality({i \in DOMAIN reqs : FailedCreate(i)})

\* a create and another request have failed; one event was published
C9_Witness ==
    /\ \E i \in DOMAIN reqs :
          FailedCreate(i) /\ reqs[i].err[1].response # <<>>
    /\ \E i \in DOMAIN reqs : Failed(i) /\ reqs[i].ep # "store"
    /\ Len(bus) = 1

\* C10 as stated: loading is true only while a fetch is scheduled or
\* awaiting its response; once the response has arrived, success or
\* failure, it is false.
C10_AsStated ==
    loading =>
        \/ timers # {}
        \/ \E i \in DOMAIN reqs : reqs[i].ep \in {"index", "show"} /\ InFlight(i)

\* the index/show requests answered successfully
FetchOks == {i \in DOMAIN reqs : reqs[i].ep \in {"index", "show"} /\ Succeeded(i)}

\* the one of them whose response arrived last
LastArrived ==
    CHOOSE i \in FetchOks : \A j \in FetchOks : reqs[j].doneNo <= reqs[i].doneNo

\* the ids of the delete requests answered successfully after arrival n
DeletedSince(n) ==
    {reqs[i].del : i \in {r \in DOMAIN reqs : /\ reqs[r].ep = "destroy"
                                              /\ Succeeded(r)
                                              /\ reqs[r].doneNo > n}}

Without(ds, ids) == SelectSeq(ds, LAMBDA d : d.id \notin ids)

\* C11 as stated: once an index/show response has been handled
\* successfully, data is the data of the one that arrived last, less the
\* records whose ids were deleted successfully since it arrived.
C11_AsStated ==
    FetchOks # {} =>
        data = Without(reqs[LastArrived].got[1].data,
                       DeletedSince(reqs[LastArrived].doneNo))

\* data(v) was called after the handler of request i ran
DataSetSince(i) ==
    \E k \in DOMAIN calls : calls[k].op = "data" /\ k > reqs[i].doneAt

\* C11 amended: once an index/show response has been handled successfully,
\* and unless data(v) was called since the last one arrived, data is the data
\* of the one that arrived last, less the records whose ids were deleted
\* successfully since it arrived; the order of dispatch, and the responses of
\* create and update, make no difference.
C11_DataIsLastArrivedLessDeleted ==
    (FetchOks # {} /\ ~DataSetSince(LastArrived)) =>
        data = Without(reqs[LastArrived].got[1].data,
                       DeletedSince(reqs[LastArrived].doneNo))

\* a delete answered after the last index response took records out of data
C11_Witness ==
    /\ FetchOks # {} /\ ~DataSetSince(LastArrived)
    /\ DeletedSince(reqs[LastArrived].doneNo) # {}
    /\ data # reqs[LastArrived].got[1].data
    /\ data # <<>>

\* the constructor was called with autoload and a non-empty route
Autoloading == ctor.autoload /\ ctor.route # ""

\* no method has been called since the construction
Untouched == Len(calls) = (IF Autoloading THEN 1 ELSE 0)

\* what holds of the constructed client as long as no method is called: with
\* autoload and a route, one get() without arguments was made, at delay 0,
\* and its task is pending or its one request was dispatched, to
\* <route>.index with the initial parameters; otherwise nothing is pending
\* and nothing was dispatched
C12_WhileUntouched ==
    Untouched =>
        IF Autoloading
        THEN /\ calls[1].op = "get" /\ calls[1].arg = EmptyObj
             /\ calls[1].delay = 0 /\ ~calls[1].pend
             /\ DOMAIN reqs \subseteq {1}
             /\ Cardinality(timers) + Cardinality(DOMAIN reqs) = 1
             /\ \A t \in timers : t.h = 1 /\ t.ep = "index" /\ t.left = 0
             /\ Dispatched(1) =>
                    /\ reqs[1].name = ctor.route \o ".index"
                    /\ reqs[1].params = EmptyObj
        ELSE timers = {} /\ DOMAIN reqs = {} /\ ~loading

\* C12: constructing with autoload and a non-empty route schedules one
\* fetch-all at delay 0, and unless a method is called first its one GET to
\* <route>.index is dispatched, with the initial parameters; constructing
\* without autoload, or with an empty route, makes no call and dispatches
\* nothing.
C12_AutoloadFetchesOnce ==
    /\ [](last.ev = "new" => Untouched /\ (Autoloading => loading))
    /\ []C12_WhileUntouched
    /\ (Autoloading /\ Untouched) ~> (Dispatched(1) \/ ~Untouched)

\* the autoloaded request was dispatched and answered, no method called
C12_Witness ==
    /\ Autoloading /\ Untouched
    /\ Succeeded(1) /\ reqs[1].name = "users.index"
    /\ timers = {} /\ ~loading

\* call i is exclude(ids) or only(ids), call j the get() right after it, and
\* no call replaced the parameters before the task of j ran
ListThenGet(i, j) ==
    /\ i \in DOMAIN calls /\ j \in DOMAIN calls /\ j = i + 1
    /\ calls[i].op \in {"exclude", "only"} /\ calls[j].op = "get"
    /\ Dispatched(j)
    /\ \A k \in (j + 1)..reqs[j].asOf : ~IsReplace(k)

\* C13: the index request of a get() called right after exclude(ids)
\* (only(ids)) carries the parameter exclude (only), the ids joined by
\* commas in the order given: "1,2" for the ids <<"1", "2">> passed here.
C13_ListReachesRequest ==
    \A i, j \in DOMAIN calls :
        ListThenGet(i, j) =>
            /\ reqs[j].name = route \o ".index"
            /\ calls[i].op \in DOMAIN reqs[j].params
            /\ reqs[j].params[calls[i].op] = "1,2"
            /\ \A ids \in IdLists : ids = <<"1", "2">>

\* exclude(<<"1", "2">>), then get(), whose request was answered
C13_Witness ==
    /\ ListThenGet(1, 2) /\ calls[1].op = "exclude"
    /\ Succeeded(2) /\ reqs[2].params.exclude = "1,2"

\* a step leaves every dispatched request in place, as it was sent; one in
\* flight stays in flight until its own response is handled, and one answered
\* is not touched again
NothingCancelled ==
    \A i \in DOMAIN reqs :
        /\ i \in DOMAIN reqs'
        /\ reqs'[i].name = reqs[i].name /\ reqs'[i].params = reqs[i].params
        /\ IF InFlight(i)
           THEN reqs'[i].st = "flight" \/ (last'.id = i /\ last' # last)
           ELSE reqs'[i] = reqs[i]

\* since the handler of request i ran, no delete was answered and neither
\* data(v) nor meta(m) was called
QuietSince(i) ==
    /\ DeletedSince(reqs[i].doneNo) = {}
    /\ \A k \in DOMAIN calls :
          calls[k].op \in {"data", "meta"} => k <= reqs[i].doneAt

\* of two index/show requests both answered successfully, data and meta are
\* those of the response that arrived last, whichever was dispatched first
LastArrivalWins ==
    \A i, j \in FetchOks :
        (i # j /\ reqs[i].doneNo < reqs[j].doneNo
              /\ j = LastArrived /\ QuietSince(j)) =>
            /\ data = reqs[j].got[1].data
            /\ meta = reqs[j].got[1].meta

\* C14: no call cancels a request that was dispatched, and of two fetch
\* requests outstanding together the response handled last determines data
\* and meta, irrespective of the order of dispatch.
C14_NoCancelLastArrivalWins ==
    [][NothingCancelled]_vars /\ []LastArrivalWins

\* two index requests in flight together, the second answered first: data
\* and meta are those of the first, whose response arrived last
C14_Witness ==
    /\ {1, 2} \subseteq FetchOks
    /\ reqs[1].asOf < reqs[2].asOf /\ reqs[2].doneNo < reqs[1].doneNo
    /\ reqs[1].got # reqs[2].got
    /\ data = reqs[1].got[1].data /\ meta = reqs[1].got[1].meta

\* i and j are fetch calls with no fetch call between them
FetchPair(i, j) ==
    /\ i \in DOMAIN calls /\ j \in DOMAIN calls /\ i < j
    /\ IsFetch(i) /\ IsFetch(j)
    /\ \A k \in (i + 1)..(j - 1) : ~IsFetch(k)

\* the timer tasks pending for endpoint ep
PendingOf(ep) == {t \in timers : t.ep = ep}

\* C15: at most one index task and at most one show task is pending; a get()
\* called while the task of the get() before it is pending, or a show()
\* while the task of the show() before it is pending, cancels that task, and
\* its request is never dispatched.
C15_OnePendingPerKind ==
    /\ Cardinality(PendingOf("index")) <= 1
    /\ Cardinality(PendingOf("show")) <= 1
    /\ \A i, j \in DOMAIN calls :
          (FetchPair(i, j) /\ calls[i].op = calls[j].op /\ calls[j].pend) =>
              ~Dispatched(i) /\ ~Pending(i, timers)

\* show() called while the task of a show() was pending: only the request
\* of the second was dispatched
C15_Witness ==
    /\ FetchPair(1, 2) /\ calls[1].op = "show" /\ calls[2].op = "show"
    /\ calls[2].pend /\ ~Dispatched(1) /\ Succeeded(2)
    /\ PendingOf("show") = {}

\* the onSuccess calls made, in order
Registrations == SelectSeq(calls, LAMBDA c : c.op = "onSuccess")

\* the registered callbacks the handlers of creates have invoked, in order
RegisteredRuns ==
    SelectSeq(cbLog, LAMBDA c : c.who = "registered" /\ reqs[c.req].ep = "store")

\* the onSuccess calls among the first n calls
RegistrationsBy(n) == SelectSeq(SubSeq(calls, 1, n), LAMBDA c : c.op = "onSuccess")

\* C16: one callback is registered at a time, that of the last onSuccess
\* call; the handler of each successful create invokes the callback
\* registered when it runs, once, and no callback registered earlier; the
\* registration stays through successive creates.
C16_LastRegistrationWins ==
    /\ callback = IF Registrations = <<>> THEN Null
                  ELSE Registrations[Len(Registrations)].cb
    /\ \A n \in DOMAIN RegisteredRuns :
          LET i == RegisteredRuns[n].req
              regs == RegistrationsBy(reqs[i].doneAt)
          IN  /\ Succeeded(i)
              /\ regs # <<>> /\ RegisteredRuns[n].f = regs[Len(regs)].cb
              /\ \A m \in DOMAIN RegisteredRuns :
                    RegisteredRuns[m].req = i => m = n
    /\ \A i \in DOMAIN reqs :
          (reqs[i].ep = "store" /\ Succeeded(i)
                               /\ RegistrationsBy(reqs[i].doneAt) # <<>>) =>
              \E n \in DOMAIN RegisteredRuns : RegisteredRuns[n].req = i

\* "f" was registered, then "g", and then a create succeeded: "g" ran
C16_Witness ==
    /\ Len(Registrations) = 2 /\ Registrations[1].cb # Registrations[2].cb
    /\ Len(RegisteredRuns) = 1 /\ RegisteredRuns[1].req = 3
    /\ RegisteredRuns[1].f = Registrations[2].cb

\* the keys call m merges into the stored parameters
KeysMerged(m) ==
    IF ~IsMerge(m) THEN {}
    ELSE DOMAIN calls[m].arg \cup (IF calls[m].op = "delete" THEN {"id"} ELSE {})

\* the last params/exclude/only call among the first n calls, 0 if none
LastReplaceBy(n) ==
    LET rs == {k \in 1..n : IsReplace(k)}
    IN  IF rs = {} THEN 0 ELSE CHOOSE k \in rs : \A q \in rs : q <= k

\* right after params(p), exclude(ids) or only(ids) the stored parameters are
\* the map given, for exclude and only the one key; a request dispatched
\* after such a call carries no key but those of that map and those merged
\* since the call
ReplacedWholesale ==
    /\ last.ev \in {"params", "exclude", "only"} =>
          /\ params = calls[last.id].arg
          /\ last.ev # "params" => DOMAIN params = {last.ev}
    /\ \A r \in DOMAIN reqs :
          LET k == LastReplaceBy(reqs[r].asOf)
          IN  k # 0 =>
                DOMAIN reqs[r].params \subseteq
                    DOMAIN calls[k].arg
                    \cup UNION {KeysMerged(m) : m \in (k + 1)..reqs[r].asOf}

\* a params/exclude/only call changes nothing but the stored parameters
ReplaceFrame ==
    (last' # last /\ last'.ev \in {"params", "exclude", "only"}) =>
        UNCHANGED <<data, meta, raw, loading, saving, callback, debouncing,
                    timers, reqs, route>>

\* C17: params(p), exclude(ids) and only(ids) replace the stored parameters:
\* right after exclude (only) they hold the one key exclude (only), the keys
\* merged before are in no later request until merged again, and data, meta,
\* loading, saving and the pending timer are as they were.
C17_ReplaceNotMerge == []ReplacedWholesale /\ [][ReplaceFrame]_vars

\* get() with a query, then exclude(ids) while its task was pending: the
\* request went out with exclude alone, and loading is still on
C17_Witness ==
    /\ Len(calls) = 2 /\ calls[1].op = "get" /\ "query" \in DOMAIN calls[1].arg
    /\ calls[2].op = "exclude"
    /\ InFlight(1) /\ reqs[1].asOf = 2 /\ DOMAIN reqs[1].params = {"exclude"}
    /\ DOMAIN params = {"exclude"} /\ loading

\* C18: get() and show() keep one timer handle between them: at most one
\* task is pending in all, the one the handle names; a show() called while
\* the task of a get() is pending, or a get() while the task of a show() is
\* pending, cancels it, and neither the request nor the callback of the
\* cancelled call is ever dispatched or invoked.
C18_OneSlotForBothKinds ==
    /\ Cardinality(timers) <= 1
    /\ \A t \in timers : t.h = debouncing
    /\ \A i, j \in DOMAIN calls :
          (FetchPair(i, j) /\ calls[i].op # calls[j].op /\ calls[j].pend) =>
              /\ ~Dispatched(i) /\ ~Pending(i, timers)
              /\ InvokedFor(i) = <<>>

\* show() called while the task of get(params, cb) was pending: the index
\* request never went out and cb never ran, the show request was answered
C18_Witness ==
    /\ FetchPair(1, 2) /\ calls[1].op = "get" /\ calls[2].op = "show"
    /\ calls[1].cb # Null /\ calls[2].pend
    /\ ~Dispatched(1) /\ InvokedFor(1) = <<>>
    /\ Succeeded(2) /\ reqs[2].ep = "show" /\ timers = {}

\* the fetch call k was followed by another fetch call
Superseded(k) == \E j \in DOMAIN calls : j > k /\ IsFetch(j)

\* the task of fetch call k was cancelled: the next fetch call found it
\* pending
Cancelled(k) == \E j \in DOMAIN calls : FetchPair(k, j) /\ calls[j].pend

\* what holds of every fetch call k at all times: its task runs at most once
\* and its request carries the parameters stored when the task ran; its
\* callback has run once if its response was handled successfully and not
\* at all otherwise; if it was cancelled no request of it exists; and once
\* the response of the last fetch call was handled successfully, loading is
\* false
BurstSafe ==
    \A k \in Fetches :
        /\ Dispatched(k) =>
              /\ ~Pending(k, timers)
              /\ reqs[k].params = calls[reqs[k].asOf].after
        /\ Len(InvokedFor(k)) =
              (IF Succeeded(k) /\ calls[k].cb # Null THEN 1 ELSE 0)
        /\ \A n \in DOMAIN InvokedFor(k) : InvokedFor(k)[n].f = calls[k].cb
        /\ Cancelled(k) => ~Dispatched(k) /\ ~Pending(k, timers)
        /\ (Succeeded(k) /\ ~Superseded(k)) => ~loading

\* the task of fetch call k is pending, its delay running or elapsed
Delayed(k) == k \in DOMAIN calls /\ IsFetch(k) /\ Pending(k, timers)

\* a step that ends a pending task runs it or is a later fetch call
TaskRunsOrIsSuperseded ==
    \A k \in Fetches :
        (Delayed(k) /\ ~Delayed(k)') => (Dispatched(k)' \/ Superseded(k)')

\* C19: with time passing and due tasks run, the task of a fetch call that
\* no later fetch call follows is not cancelled and its request is
\* dispatched, once, with the parameters stored when the task runs; when
\* its response is handled successfully loading is false and its callback
\* has run once; the callbacks of the calls cancelled before it never run.
C19_LastOfBurstIsDispatched ==
    /\ []BurstSafe
    /\ \A k \in 1..MaxBurst : Delayed(k) ~> (Dispatched(k) \/ Superseded(k))
    /\ [][TaskRunsOrIsSuperseded]_vars

\* a burst of two fetch calls with callbacks, the second made while the task
\* of the first was pending and so delayed by the debounce duration: only
\* the second was dispatched and answered, and only its callback ran
C19_Witness ==
    /\ Len(calls) = limit /\ FetchPair(1, 2)
    /\ calls[1].cb # Null /\ calls[2].cb # Null
    /\ Cancelled(1) /\ calls[2].delay = Debounce
    /\ ~Dispatched(1) /\ InvokedFor(1) = <<>>
    /\ Succeeded(2) /\ Len(InvokedFor(2)) = 1 /\ ~loading /\ timers = {}

=============================================================================
